---- MODULE Spec2Model ----
(***************************************************************************)
(* ContractVault: the dispute-verification service (src/dispute.py).       *)
(*                                                                         *)
(* A Python str is modelled as a sequence of tokens (TLA+ strings): a      *)
(* token is a run of characters that the code never looks inside, and the  *)
(* searched substrings ("github.com", '"', "```json", "/", ".git") are     *)
(* made of whole tokens.  A Python value that may be None, a str, a list   *)
(* or a dict is a record [t |-> <type name>, v |-> <content>].             *)
(***************************************************************************)
EXTENDS Integers, Sequences, FiniteSets, TLC

\* Bound on the number of proof links a request carries.
MaxLinks == 2

------------------------------------------------------------------------------
\* Tokens

\* the quotation mark
QUOTE == "\""
\* the three backquotes of a markdown code fence
FENCE == "<3 backquotes>"

\* Python values

PyNone == [t |-> "None", v |-> <<>>]
PyStr(s) == [t |-> "str", v |-> s]
PyList(l) == [t |-> "list", v |-> l]
PyDict(d) == [t |-> "dict", v |-> d]
\* A local that has not been assigned yet.
Unset == [t |-> "unset", v |-> <<>>]

\* Python truthiness of None / str / list / dict: `not x`.
Falsy(x) == x.t = "None" \/ (x.t \in {"str", "list"} /\ x.v = <<>>)
              \/ (x.t = "dict" /\ DOMAIN x.v = {})

\* dict.get(key) with the default None.
DictGet(d, key) == IF key \in DOMAIN d.v THEN d.v[key] ELSE PyNone

\* d[key] = val
DictPut(f, key, val) == [k \in DOMAIN f \cup {key} |-> IF k = key THEN val ELSE f[k]]

------------------------------------------------------------------------------
\* str operations

SetMin(S) == CHOOSE x \in S : \A y \in S : x <= y
SetMax(S) == CHOOSE x \in S : \A y \in S : x >= y

IsSpace(c) == c \in {" ", "\n", "\t"}

\* sub in s
Contains(s, sub) ==
    \E i \in 0..(Len(s) - Len(sub)) : SubSeq(s, i + 1, i + Len(sub)) = sub

\* s.strip()
Strip(s) ==
    LET keep == {i \in 1..Len(s) : ~IsSpace(s[i])}
    IN IF keep = {} THEN <<>> ELSE SubSeq(s, SetMin(keep), SetMax(keep))

\* s.strip(c) for a one-character c
StripChar(s, c) ==
    LET keep == {i \in 1..Len(s) : s[i] # c}
    IN IF keep = {} THEN <<>> ELSE SubSeq(s, SetMin(keep), SetMax(keep))

\* s.replace(sub, ""): every non-overlapping occurrence of sub, left to right
RECURSIVE RemoveFrom(_, _, _)
RemoveFrom(s, sub, i) ==
    IF i > Len(s) THEN <<>>
    ELSE IF i + Len(sub) - 1 <= Len(s) /\ SubSeq(s, i, i + Len(sub) - 1) = sub
         THEN RemoveFrom(s, sub, i + Len(sub))
    ELSE <<s[i]>> \o RemoveFrom(s, sub, i + 1)
Remove(s, sub) == RemoveFrom(s, sub, 1)

\* s.endswith(suffix)
EndsWith(s, suffix) ==
    Len(s) >= Len(suffix) /\ SubSeq(s, Len(s) - Len(suffix) + 1, Len(s)) = suffix

\* s.split(sep) for a one-token sep: the list of the pieces between the seps
RECURSIVE SplitFrom(_, _, _, _)
SplitFrom(s, sep, i, cur) ==
    IF i > Len(s) THEN <<cur>>
    ELSE IF s[i] = sep THEN <<cur>> \o SplitFrom(s, sep, i + 1, <<>>)
    ELSE SplitFrom(s, sep, i + 1, Append(cur, s[i]))
Split(s, sep) == SplitFrom(s, sep, 1, <<>>)

------------------------------------------------------------------------------
\* json.loads, on the flat documents the judge is asked for: null, a string,
\* a list of scalars, an object whose values are scalars.

JsonFail == [ok |-> FALSE, val |-> PyNone, next |-> 0]

\* index of the first token at or after i that is not JSON whitespace
SkipWs(s, i) == SetMin({j \in i..(Len(s) + 1) : j = Len(s) + 1 \/ ~IsSpace(s[j])})

\* a string literal opening at s[i] = '"'
ParseString(s, i) ==
    LET close == {j \in (i + 1)..Len(s) : s[j] = QUOTE}
    IN IF close = {} THEN JsonFail
       ELSE [ok |-> TRUE, val |-> PyStr(SubSeq(s, i + 1, SetMin(close) - 1)),
             next |-> SetMin(close) + 1]

ParseScalar(s, i) ==
    IF i > Len(s) THEN JsonFail
    ELSE IF s[i] = QUOTE THEN ParseString(s, i)
    ELSE IF s[i] = "null" THEN [ok |-> TRUE, val |-> PyNone, next |-> i + 1]
    ELSE JsonFail

\* the elements of a list, from the position after "[" or ","
RECURSIVE ParseElements(_, _, _)
ParseElements(s, i, acc) ==
    LET el == ParseScalar(s, SkipWs(s, i))
        e == SkipWs(s, el.next)
    IN IF ~el.ok \/ e > Len(s) THEN JsonFail
       ELSE IF s[e] = "]"
            THEN [ok |-> TRUE, val |-> PyList(Append(acc, el.val)), next |-> e + 1]
       ELSE IF s[e] = "," THEN ParseElements(s, e + 1, Append(acc, el.val))
       ELSE JsonFail

\* the members of an object, from the position after "{" or ","
RECURSIVE ParseMembers(_, _, _)
ParseMembers(s, i, acc) ==
    LET k == SkipWs(s, i)
    IN IF k > Len(s) \/ s[k] # QUOTE THEN JsonFail
       ELSE LET key == ParseString(s, k)
                c == SkipWs(s, key.next)
            IN IF ~key.ok \/ c > Len(s) \/ s[c] # ":" THEN JsonFail
               ELSE LET val == ParseScalar(s, SkipWs(s, c + 1))
                        e == SkipWs(s, val.next)
                        acc2 == DictPut(acc, key.val.v, val.val)
                    IN IF ~val.ok \/ e > Len(s) THEN JsonFail
                       ELSE IF s[e] = "}"
                            THEN [ok |-> TRUE, val |-> PyDict(acc2), next |-> e + 1]
                       ELSE IF s[e] = "," THEN ParseMembers(s, e + 1, acc2)
                       ELSE JsonFail

ParseValue(s, i) ==
    IF i > Len(s) THEN JsonFail
    ELSE IF s[i] = "{"
         THEN LET j == SkipWs(s, i + 1)
              IN IF j <= Len(s) /\ s[j] = "}"
                 THEN [ok |-> TRUE, val |-> PyDict(<<>>), next |-> j + 1]
                 ELSE ParseMembers(s, i + 1, <<>>)
    ELSE IF s[i] = "["
         THEN LET j == SkipWs(s, i + 1)
              IN IF j <= Len(s) /\ s[j] = "]"
                 THEN [ok |-> TRUE, val |-> PyList(<<>>), next |-> j + 1]
                 ELSE ParseElements(s, i + 1, <<>>)
    ELSE ParseScalar(s, i)

\* json.loads(s): [ok |-> FALSE] stands for json.JSONDecodeError
json_loads(s) ==
    LET r == ParseValue(s, SkipWs(s, 1))
    IN IF r.ok /\ SkipWs(s, r.next) > Len(s) THEN r ELSE JsonFail

------------------------------------------------------------------------------
\* Inputs: request bodies and the responses of the external services

\* proof links
UrlRepo == <<"https:", "/", "/", "github", ".", "com", "/", "acme", "/", "widgets">>
UrlFolder == <<"https:", "/", "/", "drive", ".", "google", ".", "com", "/", "drive",
               "/", "folders", "/", "F1", "?", "usp=sharing">>
\* both substrings, "github.com" first
UrlRepoThenFolder == <<"https:", "/", "/", "github", ".", "com", "/", "acme", "/",
                       "drive", ".", "google", ".", "com">>
\* both substrings, "drive.google.com" first
UrlFolderThenRepo == <<"https:", "/", "/", "drive", ".", "google", ".", "com", "/",
                       "github", ".", "com">>
UrlSite == <<"https:", "/", "/", "widgets", ".", "vercel", ".", "app">>
Urls == {UrlRepo, UrlFolder, UrlRepoThenFolder, UrlFolderThenRepo, UrlSite}

RECURSIVE SeqsUpTo(_, _)
SeqsUpTo(S, n) ==
    IF n = 0 THEN {<<>>}
    ELSE LET shorter == SeqsUpTo(S, n - 1)
         IN shorter \cup {Append(q, x) : q \in {r \in shorter : Len(r) = n - 1}, x \in S}

LinkLists == SeqsUpTo(Urls, MaxLinks)

K(name) == <<name>>

\* contractData objects: task is a list of clauses or null, links is absent or a list
ContractObjects ==
    {PyDict(K("projectDescription") :> PyStr(<<"Build a landing page">>)
            @@ K("task") :> task)
        : task \in {PyList(<<<<"design mockup">>>>), PyNone}}
    \cup
    {PyDict(K("projectDescription") :> PyStr(<<"Build a landing page">>)
            @@ K("task") :> task @@ K("links") :> PyList(l))
        : task \in {PyList(<<<<"design mockup">>>>), PyNone}, l \in LinkLists}

\* request.json raises (the body is not JSON)
BadRequestBody == [t |-> "BadRequest", v |-> <<>>]

Bodies ==
    {BadRequestBody, PyNone, PyList(<<>>)}
    \cup {PyDict(K("userEmail") :> PyStr(<<"a@b.c">>))}
    \cup {PyDict(K("contractData") :> cd)
            : cd \in {PyNone, PyDict(<<>>), PyStr(<<"see attachment">>)}}
    \cup {PyDict(K("contractData") :> cd) : cd \in ContractObjects}

\* model.generate_content(...).text: raises, or returns text
InferenceError(msg) == [raises |-> TRUE, text |-> <<>>, err |-> msg]
InferenceText(text) == [raises |-> FALSE, text |-> text, err |-> ""]
InferenceErrors ==
    {InferenceError("503 The model is overloaded."),
     InferenceError("429 Resource has been exhausted.")}

ClassifyTexts ==
    {<<"Web Developer">>,
     <<" ", QUOTE, "Graphic Designer", QUOTE, "\n">>,
     <<"Unknown">>,
     <<QUOTE, "Unknown", QUOTE, "\n">>,
     <<"The", " ", "role", " ", "is", " ", "unclear.">>,
     <<>>}
ClassifyResponses == InferenceErrors \cup {InferenceText(x) : x \in ClassifyTexts}

JsonVerdict(decision, justification) ==
    <<"{", QUOTE, "decision", QUOTE, ":", " ", QUOTE>> \o decision
    \o <<QUOTE, ",", " ", QUOTE, "justification", QUOTE, ":", " ", QUOTE>> \o justification
    \o <<QUOTE, "}">>

JudgeTexts ==
    {JsonVerdict(<<"approved">>, <<"Matches described landing page work.">>),
     <<FENCE, "json", "\n">> \o JsonVerdict(<<"approved">>, <<"Files match.">>)
        \o <<"\n", FENCE, "\n">>,
     JsonVerdict(<<"approved">>, <<>>),
     JsonVerdict(<<"needs_review">>, <<"Evidence is unrelated.">>),
     JsonVerdict(<<"needs_review">>, <<>>),
     JsonVerdict(<<"Approved">>, <<"Looks fine.">>),
     <<"Verdict:", " ">> \o JsonVerdict(<<"approved">>, <<"Looks fine.">>),
     <<"{", QUOTE, "decision", QUOTE, ":">>,
     <<"{", QUOTE, "decision", QUOTE, ":", QUOTE, "approved", QUOTE, "}">>,
     <<"{", QUOTE, "justification", QUOTE, ":", QUOTE, "Looks fine.", QUOTE, "}">>,
     <<"[", QUOTE, "approved", QUOTE, "]">>,
     <<"null">>}
JudgeResponses == InferenceErrors \cup {InferenceText(x) : x \in JudgeTexts}

\* a listing API (repository contents, folder files): fails, or returns names
ListingError == [fails |-> TRUE, names |-> <<>>]
Listing(names) == [fails |-> FALSE, names |-> names]
ListingResponses == {ListingError, Listing(<<>>), Listing(<<"index.html", "style.css">>)}

\* the web fetch and the HTML extraction: a requests.RequestException (timeout,
\* non-2xx), another exception (raised by the extraction), or the visible text
FetchResponses ==
    {[exc |-> "RequestException", text |-> <<>>],
     [exc |-> "ParserRejectedMarkup", text |-> <<>>],
     [exc |-> "", text |-> <<>>],
     [exc |-> "", text |-> <<"Acme", " ", "landing", " ", "page">>]}

------------------------------------------------------------------------------
\* The stages of the pipeline

UNKNOWN == <<"Unknown">>

\* contract_details.get(key, default); asked only of a dict (of anything else
\* the classifier's prompt raises first, and the Unknown role ends the run)
DetailsGet(contract_details, key, default) ==
    IF contract_details.t = "dict" /\ key \in DOMAIN contract_details.v
    THEN contract_details.v[key] ELSE default

\* building the classifier's prompt raises: contract_details has no .get, or
\* "\n- ".join(...) is given something that is not a list of str
PromptRaises(contract_details) ==
    \/ contract_details.t # "dict"
    \/ DetailsGet(contract_details, K("task"), PyList(<<>>)).t # "list"

\* _classify_freelancer_role: the returned role
classify_freelancer_role(contract_details, resp) ==
    IF PromptRaises(contract_details) \/ resp.raises
    THEN UNKNOWN
    ELSE Remove(Strip(resp.text), <<QUOTE>>)

GITHUB_COM == <<"github", ".", "com">>
DRIVE_GOOGLE_COM == <<"drive", ".", "google", ".", "com">>

\* SelectProvider with the two substring tests in the other order
SelectProvider_FolderFirst(proof_url) ==
    IF Contains(proof_url, DRIVE_GOOGLE_COM) THEN "get_google_drive_folder_contents"
    ELSE IF Contains(proof_url, GITHUB_COM) THEN "get_github_repo_contents"
    ELSE "scrape_website_text"

\* the helper get_ai_dispute_verdict selects for proof_url
SelectProvider(proof_url) ==
    IF Contains(proof_url, GITHUB_COM) THEN "get_github_repo_contents"
    ELSE IF Contains(proof_url, DRIVE_GOOGLE_COM) THEN "get_google_drive_folder_contents"
    ELSE "scrape_website_text"

\* the evidence_type set next to the call of each helper
EvidenceType(provider) ==
    IF provider = "get_github_repo_contents" THEN "List of Files from GitHub"
    ELSE IF provider = "get_google_drive_folder_contents"
         THEN "List of Files from Google Drive"
    ELSE "Scraped Website Content"

\* a helper's result: the value returned, or the exception that leaves it
Returns(value) == [exc |-> "", value |-> value]
Raises(exc) == [exc |-> exc, value |-> PyNone]

\* RepoOf without `if repo.endswith('.git'): repo = repo[:-4]`
RepoOf_KeepGit(repo_url) ==
    LET parts == Split(StripChar(repo_url, "/"), "/")
    IN IF Len(parts) < 2 THEN <<>> ELSE <<parts[Len(parts) - 1], parts[Len(parts)]>>

\* owner and repo of get_github_repo_contents: <<>> stands for the IndexError
RepoOf(repo_url) ==
    LET parts == Split(StripChar(repo_url, "/"), "/")
    IN IF Len(parts) < 2 THEN <<>>
       ELSE LET repo == parts[Len(parts)]
            IN <<parts[Len(parts) - 1],
                 IF EndsWith(repo, <<".", "git">>) THEN SubSeq(repo, 1, Len(repo) - 2)
                 ELSE repo>>

get_github_repo_contents(repo_url, resp) ==
    IF RepoOf(repo_url) = <<>> \/ resp.fails THEN Returns(PyNone)
    ELSE Returns(PyList(resp.names))

get_google_drive_folder_contents(folder_url, resp) ==
    IF resp.fails THEN Returns(PyNone) ELSE Returns(PyList(resp.names))

scrape_website_text(url, resp) ==
    IF resp.exc = "RequestException" THEN Returns(PyNone)
    ELSE IF resp.exc # "" THEN Raises(resp.exc)
    ELSE Returns(PyStr(resp.text))

\* what the selected helper may answer, and what it then returns
ProviderResponses(provider) ==
    IF provider = "scrape_website_text" THEN FetchResponses ELSE ListingResponses

InvokeProvider(provider, proof_url, resp) ==
    IF provider = "get_github_repo_contents" THEN get_github_repo_contents(proof_url, resp)
    ELSE IF provider = "get_google_drive_folder_contents"
         THEN get_google_drive_folder_contents(proof_url, resp)
    ELSE scrape_website_text(proof_url, resp)

JSONDecodeError == "Expecting value: line 1 column 1 (char 0)"

ErrorVerdict(e) ==
    PyDict(K("decision") :> PyStr(<<"error">>)
           @@ K("justification") :> PyStr(<<"Gemini API error: ", e>>))

\* _verify_proof_with_role: the returned verdict (whatever json.loads gives)
verify_proof_with_role(resp) ==
    IF resp.raises THEN ErrorVerdict(resp.err)
    ELSE LET decoded == json_loads(Remove(Remove(Strip(resp.text), <<FENCE, "json">>),
                                          <<FENCE>>))
         IN IF decoded.ok THEN decoded.val ELSE ErrorVerdict(JSONDecodeError)

\* a DisputeOutcome
Outcome(status, reason) == [status |-> status, reason |-> reason]
NoOutcome == Outcome("", Unset)

RoleReason == PyStr(<<"Could not determine freelancer role from contract.">>)
NoLinksReason == PyStr(<<"No proof links were provided.">>)
NoProofReason(proof_url) ==
    PyStr(<<"Could not access or process the proof from the provided link: ">>
          \o proof_url)

\* EarlyOutcome with the reason of the first exit copied into the second
EarlyOutcome_CopiedReason(role, links) ==
    IF role = UNKNOWN THEN Outcome("not accepted", RoleReason)
    ELSE IF Falsy(links) THEN Outcome("not accepted", RoleReason)
    ELSE NoOutcome

\* EarlyOutcome with the links check ahead of the role check
EarlyOutcome_LinksFirst(role, links) ==
    IF Falsy(links) THEN Outcome("not accepted", NoLinksReason)
    ELSE IF role = UNKNOWN THEN Outcome("not accepted", RoleReason)
    ELSE NoOutcome

\* get_ai_dispute_verdict after the classifier: the outcome it returns before
\* any evidence is gathered, NoOutcome if it goes on to the first link
EarlyOutcome(role, links) ==
    IF role = UNKNOWN THEN Outcome("not accepted", RoleReason)
    ELSE IF Falsy(links) THEN Outcome("not accepted", NoLinksReason)
    ELSE NoOutcome

\* `if not evidence` never taken: the judge is asked whatever was gathered
NoEvidence_Never(e) == FALSE

\* `if evidence is None` in place of `if not evidence`
NoEvidence_NoneOnly(ev) == ev.t = "None"

\* `if not evidence`
NoEvidence(ev) == Falsy(ev)

\* VerdictOutcome that accepts whatever is not "needs_review"
VerdictOutcome_NotNeedsReview(verdict) ==
    IF verdict.t # "dict" THEN Raises("AttributeError")
    ELSE IF DictGet(verdict, K("decision")) # PyStr(<<"needs_review">>)
         THEN Returns(Outcome("accepted", DictGet(verdict, K("justification"))))
    ELSE Returns(Outcome("not accepted", DictGet(verdict, K("justification"))))

\* the end of get_ai_dispute_verdict: the verdict mapped to the outcome
VerdictOutcome(verdict) ==
    IF verdict.t # "dict" THEN Raises("AttributeError")
    ELSE IF DictGet(verdict, K("decision")) = PyStr(<<"approved">>)
         THEN Returns(Outcome("accepted", DictGet(verdict, K("justification"))))
    ELSE Returns(Outcome("not accepted", DictGet(verdict, K("justification"))))

\* `proof_url = links[0]` taking the last link instead
ProofUrl_Last(links) == links.v[Len(links.v)]

\* `proof_url = links[0]`
ProofUrl(links) == links.v[1]

\* get_ai_dispute_verdict run alone, as a function of the request and of the
\* replies its stages get (replies[1] the classifier's, replies[2] the evidence
\* helper's, replies[3] the judge's): the outcome returned or the exception raised
get_ai_dispute_verdict(details, replies) ==
    LET role == classify_freelancer_role(details, replies[1])
        links == DetailsGet(details, K("links"), PyList(<<>>))
        early == EarlyOutcome(role, links)
    IN IF early # NoOutcome THEN Returns(early)
       ELSE LET url == ProofUrl(links)
                provider == SelectProvider(url)
                result == InvokeProvider(provider, url, replies[2])
            IN IF result.exc # "" THEN Raises(result.exc)
               ELSE IF NoEvidence(result.value)
                    THEN Returns(Outcome("not accepted", NoProofReason(url)))
               ELSE VerdictOutcome(verify_proof_with_role(replies[3]))

\* the responses of handle_dispute
NoResponse == [code |-> 0, ok |-> FALSE, status |-> "", reason |-> Unset, error |-> ""]
OkResponse(ai_verdict) ==
    [code |-> 200, ok |-> TRUE, status |-> ai_verdict.status,
     reason |-> ai_verdict.reason, error |-> ""]
\* the 400 answer without its status code
MissingResponse_NoStatusCode ==
    [code |-> 200, ok |-> FALSE, status |-> "", reason |-> Unset,
     error |-> "Missing 'contractData' in request body."]

MissingResponse ==
    [code |-> 400, ok |-> FALSE, status |-> "", reason |-> Unset,
     error |-> "Missing 'contractData' in request body."]
\* the 500 answer carrying str(e), as the endpoints of app.py do
ErrorResponse_Leaky(e) ==
    [code |-> 500, ok |-> FALSE, status |-> "", reason |-> Unset, error |-> e]

ErrorResponse(e) ==
    [code |-> 500, ok |-> FALSE, status |-> "", reason |-> Unset,
     error |-> "An internal server error occurred."]

------------------------------------------------------------------------------
\* One request to /verify-proof at a time: the locals of handle_dispute and of
\* get_ai_dispute_verdict, and what the run did.

VARIABLES
    pc,                  \* where the request is: the call it waits for
    body,                \* request.json
    contract_details,
    freelancer_role,
    proof_url,
    evidence,
    evidence_type,
    ai_detailed_verdict,
    ai_verdict,          \* what get_ai_dispute_verdict returned
    raised,              \* the exception that left a stage, and the stage
    response,            \* what handle_dispute answered
    calls                \* the stages invoked in this run, in order, with arguments

vars == <<pc, body, contract_details, freelancer_role, proof_url, evidence,
          evidence_type, ai_detailed_verdict, ai_verdict, raised, response, calls>>

NoException == [stage |-> "", exc |-> ""]
Exception(stage, exc) == [stage |-> stage, exc |-> exc]

\* a stage call: the function, its arguments, and what the external service
\* it consults answered
Call(fn, args, reply) == [fn |-> fn, args |-> args, reply |-> reply]
\* the classifier raised before it reached the inference service
NotAsked == InferenceError("TypeError")

Init ==
    /\ pc = "idle"
    /\ body = Unset
    /\ contract_details = Unset
    /\ freelancer_role = <<>>
    /\ proof_url = <<>>
    /\ evidence = Unset
    /\ evidence_type = "Unknown"
    /\ ai_detailed_verdict = Unset
    /\ ai_verdict = NoOutcome
    /\ raised = NoException
    /\ response = NoResponse
    /\ calls = <<>>

\* get_ai_dispute_verdict returns, and handle_dispute answers with its result
Return(outcome) ==
    /\ ai_verdict' = outcome
    /\ response' = OkResponse(outcome)
    /\ raised' = NoException
    /\ pc' = "responded"

\* an exception leaves `stage` and reaches the except clause of handle_dispute
Raise(stage, exc) ==
    /\ raised' = Exception(stage, exc)
    /\ response' = ErrorResponse(exc)
    /\ ai_verdict' = NoOutcome
    /\ pc' = "responded"

\* handle_dispute, up to the call of get_ai_dispute_verdict
HandleDispute ==
    /\ pc \in {"idle", "responded"}
    /\ \E b \in Bodies :
        /\ body' = b
        /\ freelancer_role' = <<>>
        /\ proof_url' = <<>>
        /\ evidence' = Unset
        /\ evidence_type' = "Unknown"
        /\ ai_detailed_verdict' = Unset
        /\ ai_verdict' = NoOutcome
        /\ calls' = <<>>
        /\ IF b.t = "BadRequest"
           THEN /\ raised' = Exception("handle_dispute", "BadRequest")
                /\ response' = ErrorResponse("BadRequest")
                /\ contract_details' = Unset
                /\ pc' = "responded"
           ELSE IF b.t # "dict"
           THEN /\ raised' = Exception("handle_dispute", "AttributeError")
                /\ response' = ErrorResponse("AttributeError")
                /\ contract_details' = Unset
                /\ pc' = "responded"
           ELSE IF Falsy(DictGet(b, K("contractData")))
           THEN /\ raised' = NoException
                /\ response' = MissingResponse
                /\ contract_details' = DictGet(b, K("contractData"))
                /\ pc' = "responded"
           ELSE /\ raised' = NoException
                /\ response' = NoResponse
                /\ contract_details' = DictGet(b, K("contractData"))
                /\ pc' = "classify"

\* get_ai_dispute_verdict from its start to the call of the evidence helper:
\* the role classifier, the Unknown check and the links check
ClassifyRole ==
    /\ pc = "classify"
    /\ \E resp \in ClassifyResponses :
        LET role == classify_freelancer_role(contract_details, resp)
            links == DetailsGet(contract_details, K("links"), PyList(<<>>))
            early == EarlyOutcome(role, links)
        IN /\ freelancer_role' = role
           /\ calls' = Append(calls, Call("_classify_freelancer_role", <<contract_details>>,
                                          IF PromptRaises(contract_details)
                                          THEN NotAsked ELSE resp))
           /\ IF early # NoOutcome
              THEN Return(early) /\ proof_url' = <<>>
              ELSE /\ proof_url' = ProofUrl(links)
                   /\ pc' = "evidence"
                   /\ UNCHANGED <<ai_verdict, raised, response>>
    /\ UNCHANGED <<body, contract_details, evidence, evidence_type, ai_detailed_verdict>>

\* the selected evidence helper, and the check of what it returned
GatherEvidence ==
    /\ pc = "evidence"
    /\ LET provider == SelectProvider(proof_url)
       IN \E resp \in ProviderResponses(provider) :
           LET result == InvokeProvider(provider, proof_url, resp)
           IN /\ calls' = Append(calls, Call(provider, <<proof_url>>, resp))
              /\ IF result.exc # ""
                 THEN /\ Raise(provider, result.exc)
                      /\ UNCHANGED <<evidence, evidence_type>>
                 ELSE /\ evidence' = result.value
                      /\ evidence_type' = EvidenceType(provider)
                      /\ IF NoEvidence(result.value)
                         THEN Return(Outcome("not accepted", NoProofReason(proof_url)))
                         ELSE /\ pc' = "judge"
                              /\ UNCHANGED <<ai_verdict, raised, response>>
    /\ UNCHANGED <<body, contract_details, freelancer_role, proof_url,
                   ai_detailed_verdict>>

\* the judge, and the mapping of its verdict to the outcome
JudgeProof ==
    /\ pc = "judge"
    /\ \E resp \in JudgeResponses :
        LET verdict == verify_proof_with_role(resp)
            result == VerdictOutcome(verdict)
        IN /\ calls' = Append(calls, Call("_verify_proof_with_role",
                                          <<evidence, evidence_type, freelancer_role>>,
                                          resp))
           /\ ai_detailed_verdict' = verdict
           /\ IF result.exc # ""
              THEN Raise("get_ai_dispute_verdict", result.exc)
              ELSE Return(result.value)
    /\ UNCHANGED <<body, contract_details, freelancer_role, proof_url, evidence,
                   evidence_type>>

------------------------------------------------------------------------------
\* get_github_repo_contents on its own: one call, on a repository link built
\* from its path segments

MaxSegments == 3
MaxSlashes == 1

VARIABLES
    repo_url,     \* the link the helper is called on
    segments,     \* the path segments the link was written from
    api_url,      \* the URL the helper queried, NotQueried before and if it did not
    contents      \* what the helper returned, Unset before

repo_vars == <<repo_url, segments, api_url, contents>>

GITHUB_WEB == <<"https:", "/", "/", "github", ".", "com">>

\* path segments of repository links: names, names ending in ".git", ".git" alone
Segments ==
    {<<"acme">>, <<"widgets">>, <<"git">>, <<".", "git">>,
     <<"widgets", ".", "git">>, <<"widgets", ".", "git", ".", "git">>}

RECURSIVE PathOf(_)
PathOf(segs) ==
    IF segs = <<>> THEN <<>> ELSE <<"/">> \o segs[1] \o PathOf(Tail(segs))

\* the link with the given path segments and n trailing slashes
RepoUrl(segs, n) == GITHUB_WEB \o PathOf(segs) \o [i \in 1..n |-> "/"]

RepoUrls == {RepoUrl(segs, n) : segs \in SeqsUpTo(Segments, MaxSegments), n \in 0..MaxSlashes}

\* f"https://api.github.com/repos/{owner}/{repo}/contents/"
ApiUrl(owner, repo) ==
    <<"https:", "/", "/", "api", ".", "github", ".", "com", "/", "repos", "/">>
        \o owner \o <<"/">> \o repo \o <<"/", "contents", "/">>

NotQueried == <<>>

\* no call of the helper on its own is under way
RepoIdle ==
    repo_url = <<>> /\ segments = <<>> /\ api_url = NotQueried /\ contents = Unset

RepoInit ==
    \E segs \in SeqsUpTo(Segments, MaxSegments), n \in 0..MaxSlashes :
        /\ repo_url = RepoUrl(segs, n)
        /\ segments = segs
        /\ api_url = NotQueried
        /\ contents = Unset

\* get_github_repo_contents(repo_url): the parsing of the link, the query of the
\* contents API, the names returned or None
GetGithubRepoContents ==
    /\ contents = Unset
    /\ \E resp \in ListingResponses :
        LET owner_repo == RepoOf(repo_url)
        IN /\ api_url' = IF owner_repo = <<>> THEN NotQueried
                         ELSE ApiUrl(owner_repo[1], owner_repo[2])
           /\ contents' = get_github_repo_contents(repo_url, resp).value
    /\ UNCHANGED <<repo_url, segments>>

------------------------------------------------------------------------------
\* Runs of get_ai_dispute_verdict in flight together, one per request thread

MaxRuns == 2

Runs == 1..MaxRuns

VARIABLES
    globals,        \* the module-level names of dispute.py, set at import
    run_pc,         \* of each run: "classify", "evidence", "judge", "done"
    run_details,    \* of each run: its contract_details
    frames,         \* the locals of get_ai_dispute_verdict, one frame per call
    run_calls,      \* of each run: the stage calls it made, with the key each used
    run_result      \* of each run: what it returned or raised, Unset before

run_vars == <<globals, run_pc, run_details, frames, run_calls, run_result>>

\* the keys read from the environment at import
ModuleGlobals ==
    [GEMINI_API_KEY |-> "gemini-key", GITHUB_TOKEN |-> "github-token",
     GOOGLE_API_KEY |-> "google-key"]

\* the module-level key a stage call reads, "" if none
KeyOf(fn, g) ==
    IF fn \in {"_classify_freelancer_role", "_verify_proof_with_role"} THEN g.GEMINI_API_KEY
    ELSE IF fn = "get_github_repo_contents" THEN g.GITHUB_TOKEN
    ELSE IF fn = "get_google_drive_folder_contents" THEN g.GOOGLE_API_KEY
    ELSE ""

\* the locals of a call that has just begun
NewFrame ==
    [freelancer_role |-> <<>>, proof_url |-> <<>>, evidence |-> Unset,
     evidence_type |-> "Unknown"]

\* every run writing its locals into one frame, as module-level names would be
Frame_Shared(r) == 1

\* the frame that holds the locals of run r: its own
Frame(r) == r

RunLinkLists == {<<>>, <<UrlRepo>>, <<UrlSite, UrlRepo>>, <<UrlFolder>>}

RunDetails ==
    {PyDict(K("projectDescription") :> PyStr(<<"Build a landing page">>)
            @@ K("task") :> PyList(<<<<"design mockup">>>>)
            @@ K("links") :> PyList(l)) : l \in RunLinkLists}

RunClassifyResponses ==
    {InferenceError("503 The model is overloaded."),
     InferenceText(<<"Web Developer">>),
     InferenceText(<<QUOTE, "Unknown", QUOTE, "\n">>)}

RunJudgeResponses ==
    {InferenceError("503 The model is overloaded."),
     InferenceText(JsonVerdict(<<"approved">>, <<"Files match.">>)),
     InferenceText(JsonVerdict(<<"needs_review">>, <<"Evidence is unrelated.">>)),
     InferenceText(<<"null">>)}

RunCall(fn, args, reply) ==
    [fn |-> fn, args |-> args, reply |-> reply, key |-> KeyOf(fn, globals)]

\* no run is in flight
RunsIdle ==
    /\ globals = ModuleGlobals
    /\ run_pc = [r \in Runs |-> "done"]
    /\ run_details = [r \in Runs |-> Unset]
    /\ frames = [r \in Runs |-> NewFrame]
    /\ run_calls = [r \in Runs |-> <<>>]
    /\ run_result = [r \in Runs |-> Unset]

RunsInit ==
    /\ globals = ModuleGlobals
    /\ run_pc = [r \in Runs |-> "classify"]
    /\ run_details \in [Runs -> RunDetails]
    /\ frames = [r \in Runs |-> NewFrame]
    /\ run_calls = [r \in Runs |-> <<>>]
    /\ run_result = [r \in Runs |-> Unset]

RunEnds(r, result) ==
    /\ run_result' = [run_result EXCEPT ![r] = result]
    /\ run_pc' = [run_pc EXCEPT ![r] = "done"]

RunGoesOn(r, stage) ==
    /\ run_pc' = [run_pc EXCEPT ![r] = stage]
    /\ UNCHANGED run_result

\* run r from the start of get_ai_dispute_verdict to the call of the helper
RunClassify(r) ==
    /\ run_pc[r] = "classify"
    /\ \E resp \in RunClassifyResponses :
        LET role == classify_freelancer_role(run_details[r], resp)
            links == DetailsGet(run_details[r], K("links"), PyList(<<>>))
            early == EarlyOutcome(role, links)
        IN /\ run_calls' = [run_calls EXCEPT ![r] =
                   Append(@, RunCall("_classify_freelancer_role", <<run_details[r]>>, resp))]
           /\ IF early # NoOutcome
              THEN /\ frames' = [frames EXCEPT ![Frame(r)].freelancer_role = role]
                   /\ RunEnds(r, Returns(early))
              ELSE /\ frames' = [frames EXCEPT ![Frame(r)].freelancer_role = role,
                                               ![Frame(r)].proof_url = ProofUrl(links)]
                   /\ RunGoesOn(r, "evidence")
    /\ UNCHANGED <<globals, run_details>>

\* run r through the helper its proof_url selects and the check of the evidence
RunGather(r) ==
    /\ run_pc[r] = "evidence"
    /\ LET url == frames[Frame(r)].proof_url
           provider == SelectProvider(url)
       IN \E resp \in ProviderResponses(provider) :
           LET result == InvokeProvider(provider, url, resp)
           IN /\ run_calls' = [run_calls EXCEPT ![r] =
                      Append(@, RunCall(provider, <<url>>, resp))]
              /\ IF result.exc # ""
                 THEN RunEnds(r, Raises(result.exc)) /\ UNCHANGED frames
                 ELSE /\ frames' = [frames EXCEPT
                                       ![Frame(r)].evidence = result.value,
                                       ![Frame(r)].evidence_type = EvidenceType(provider)]
                      /\ IF NoEvidence(result.value)
                         THEN RunEnds(r, Returns(Outcome("not accepted", NoProofReason(url))))
                         ELSE RunGoesOn(r, "judge")
    /\ UNCHANGED <<globals, run_details>>

\* run r through the judge and the mapping of its verdict
RunJudge(r) ==
    /\ run_pc[r] = "judge"
    /\ \E resp \in RunJudgeResponses :
        LET frame == frames[Frame(r)]
        IN /\ run_calls' = [run_calls EXCEPT ![r] =
                   Append(@, RunCall("_verify_proof_with_role",
                                     <<frame.evidence, frame.evidence_type,
                                       frame.freelancer_role>>, resp))]
           /\ RunEnds(r, VerdictOutcome(verify_proof_with_role(resp)))
    /\ UNCHANGED <<globals, run_details, frames>>

------------------------------------------------------------------------------
\* app.py, upload_to_github: calls in flight together against the contents API
\* of the file host, each a GET of the file's sha and then a PUT of the content

MaxUploads == 2

Uploads == 1..MaxUploads

VARIABLES
    host,        \* the file host: of each file name the blob sha, NoFile if absent
    up_pc,       \* of each call: "get", "put", "done"
    up_file,     \* of each call: file_name
    up_content,  \* of each call: the content read from file_path
    up_sha,      \* of each call: the local sha
    up_log,      \* of each call: the requests it sent, with the host's answers
    up_result    \* of each call: the URL returned or the exception raised

upload_vars == <<host, up_pc, up_file, up_content, up_sha, up_log, up_result>>

NoFile == <<>>

\* the blob sha of a content: the host derives it from the content alone
ShaOf(content) == <<"sha", "(", content, ")">>

FileNames == {<<"C-100", ".", "pdf">>, <<"C-200", ".", "pdf">>}

\* what a call may upload: the PDF rendered for it
ContentOf(u) == IF u = 1 THEN "pdf-1" ELSE IF u = 2 THEN "pdf-2" ELSE "pdf-3"

\* f"https://raw.githubusercontent.com/{GITHUB_REPO}/{GITHUB_BRANCH}/{file_name}"
RawUrl(file_name) ==
    <<"https:", "/", "/", "raw", ".", "githubusercontent", ".", "com", "/",
      "GITHUB_REPO", "/", "GITHUB_BRANCH", "/">> \o file_name

\* the host's answer to GET contents/{file_name}: 200 and the sha of the file,
\* 404 if there is none
HostGet(h, file_name) ==
    IF h[file_name] = NoFile THEN [status |-> 404, sha |-> PyNone]
    ELSE [status |-> 200, sha |-> PyStr(h[file_name])]

\* the host's answer to PUT contents/{file_name}: 201 for a new file sent with
\* no sha, 200 for an existing file sent with its current sha, 422 when the file
\* exists and no sha is sent, 409 when the sha sent is not the file's
HostPutStatus(h, file_name, sha) ==
    IF h[file_name] = NoFile
    THEN IF sha = PyNone THEN 201 ELSE 409
    ELSE IF sha = PyNone THEN 422
    ELSE IF sha = PyStr(h[file_name]) THEN 200
    ELSE 409

GetRequest(answer) ==
    [method |-> "GET", sent_sha |-> PyNone, before |-> NoFile,
     status |-> answer.status, sha |-> answer.sha]

PutRequest(sent, before, status) ==
    [method |-> "PUT", sent_sha |-> sent, before |-> before,
     status |-> status, sha |-> PyNone]

\* no upload is in flight
UploadIdle ==
    /\ host = [f \in FileNames |-> NoFile]
    /\ up_pc = [u \in Uploads |-> "done"]
    /\ up_file = [u \in Uploads |-> <<>>]
    /\ up_content = [u \in Uploads |-> ""]
    /\ up_sha = [u \in Uploads |-> PyNone]
    /\ up_log = [u \in Uploads |-> <<>>]
    /\ up_result = [u \in Uploads |-> Unset]

UploadInit ==
    /\ host \in [FileNames -> {NoFile, ShaOf("pdf-0")}]
    /\ up_pc = [u \in Uploads |-> "get"]
    /\ up_file \in [Uploads -> FileNames]
    /\ up_content = [u \in Uploads |-> ContentOf(u)]
    /\ up_sha = [u \in Uploads |-> PyNone]
    /\ up_log = [u \in Uploads |-> <<>>]
    /\ up_result = [u \in Uploads |-> Unset]

\* `if sha:` with the payload it makes: the sha the PUT carries, PyNone for none
PayloadSha(sha) == IF Falsy(sha) THEN PyNone ELSE sha

\* Step 1: the GET, and `sha = r.json().get("sha")` when it answers 200
UploadGet(u) ==
    /\ up_pc[u] = "get"
    /\ LET r == HostGet(host, up_file[u])
       IN /\ up_sha' = [up_sha EXCEPT ![u] = IF r.status = 200 THEN r.sha ELSE PyNone]
          /\ up_log' = [up_log EXCEPT ![u] = Append(@, GetRequest(r))]
    /\ up_pc' = [up_pc EXCEPT ![u] = "put"]
    /\ UNCHANGED <<host, up_file, up_content, up_result>>

\* Steps 2 and 3: the payload, the PUT, and the URL returned or the exception
UploadPut(u) ==
    /\ up_pc[u] = "put"
    /\ LET sent == PayloadSha(up_sha[u])
           status == HostPutStatus(host, up_file[u], sent)
       IN /\ up_log' = [up_log EXCEPT ![u] =
                  Append(@, PutRequest(sent, host[up_file[u]], status))]
          /\ IF status \in {200, 201}
             THEN /\ host' = [host EXCEPT ![up_file[u]] = ShaOf(up_content[u])]
                  /\ up_result' = [up_result EXCEPT ![u] = Returns(PyStr(RawUrl(up_file[u])))]
             ELSE /\ UNCHANGED host
                  /\ up_result' = [up_result EXCEPT ![u] = Raises("Exception")]
    /\ up_pc' = [up_pc EXCEPT ![u] = "done"]
    /\ UNCHANGED <<up_file, up_content, up_sha>>

------------------------------------------------------------------------------
\* app.py, /create-contract and /isAccepted: requests in flight together, in one
\* working directory, each rendering its contract to <contractId>.pdf and
\* uploading that file

MaxRequests == 2
MaxTime == 1

Requests == 1..MaxRequests

ContractIds == {"C-100", "C-200"}

VARIABLES
    clock,        \* int(time.time())
    temp_files,   \* the temp_<contractId>_<timestamp>.html files of the directory
    pdf_files,    \* the <contractId>.pdf files of the directory
    rq_route,     \* of each request: "/create-contract" or "/isAccepted"
    rq_id,        \* of each request: the contractId of its body
    rq_pc,        \* of each request: where its handler is
    rq_temp,      \* of each request: temp_html_path, NoTemp while not assigned
    rq_uploaded,  \* of each request: the content it read from file_path and sent
    rq_response   \* of each request: the response returned, NoAnswer before

app_vars == <<clock, temp_files, pdf_files, rq_route, rq_id, rq_pc, rq_temp,
              rq_uploaded, rq_response>>

\* temp_html_path = f"temp_{mapped_data['contractId']}_{int(time.time())}.html"
TempPath(contractId, time) == <<contractId, time>>
TempPaths == ContractIds \X (0..MaxTime)
NoTemp == <<>>

\* render_template("contract.html", **mapped_data) of request q
HtmlOf(q) == [html_of |-> q]

\* the PDF that wkhtmltopdf makes of an HTML
PdfOf(html) == [pdf_of |-> html.html_of]

NoContent == [none |-> TRUE]
NoAnswer == [code |-> 0, ok |-> FALSE, error |-> ""]
Answer(code, error) == [code |-> code, ok |-> code = 200, error |-> error]

\* no request to app.py is in flight
AppIdle ==
    /\ clock = 0
    /\ temp_files = [p \in TempPaths |-> NoContent]
    /\ pdf_files = [c \in ContractIds |-> NoContent]
    /\ rq_route = [q \in Requests |-> ""]
    /\ rq_id = [q \in Requests |-> ""]
    /\ rq_pc = [q \in Requests |-> "responded"]
    /\ rq_temp = [q \in Requests |-> NoTemp]
    /\ rq_uploaded = [q \in Requests |-> NoContent]
    /\ rq_response = [q \in Requests |-> NoAnswer]

AppInit ==
    /\ clock = 0
    /\ temp_files = [p \in TempPaths |-> NoContent]
    /\ pdf_files = [c \in ContractIds |-> NoContent]
    /\ rq_route \in [Requests -> {"/create-contract", "/isAccepted"}]
    /\ rq_id \in [Requests -> ContractIds]
    /\ rq_pc = [q \in Requests |-> "start"]
    /\ rq_temp = [q \in Requests |-> NoTemp]
    /\ rq_uploaded = [q \in Requests |-> NoContent]
    /\ rq_response = [q \in Requests |-> NoAnswer]

\* a second passes
Tick ==
    /\ clock < MaxTime
    /\ clock' = clock + 1
    /\ UNCHANGED <<temp_files, pdf_files, rq_route, rq_id, rq_pc, rq_temp,
                   rq_uploaded, rq_response>>

Respond(q, code, error) ==
    /\ rq_response' = [rq_response EXCEPT ![q] = Answer(code, error)]
    /\ rq_pc' = [rq_pc EXCEPT ![q] = "responded"]

GoTo(q, step) ==
    /\ rq_pc' = [rq_pc EXCEPT ![q] = step]
    /\ UNCHANGED rq_response

\* create_contract up to the upload: the mapping, the rendering, and
\* pdfkit.from_string(html, file_path), which writes <contractId>.pdf or raises
CreatePdf(q) ==
    /\ rq_route[q] = "/create-contract" /\ rq_pc[q] = "start"
    /\ \E converted \in BOOLEAN :
        IF converted
        THEN /\ pdf_files' = [pdf_files EXCEPT ![rq_id[q]] = PdfOf(HtmlOf(q))]
             /\ GoTo(q, "upload")
        ELSE /\ Respond(q, 500, "wkhtmltopdf reported an error")
             /\ UNCHANGED pdf_files
    /\ UNCHANGED <<clock, temp_files, rq_route, rq_id, rq_temp, rq_uploaded>>

\* accept_contract up to the PDF: the signature check, the signature downloads,
\* the rendering, and the writing of the temporary HTML file
AcceptRender(q) ==
    /\ rq_route[q] = "/isAccepted" /\ rq_pc[q] = "start"
    /\ \E step \in {"no signature", "download fails", "render raises", "written"} :
        CASE step = "no signature" ->
                /\ Respond(q, 400, "Client signature is missing")
                /\ UNCHANGED <<temp_files, rq_temp>>
          [] step = "download fails" ->
                /\ Respond(q, 500, "Failed to download signature image")
                /\ UNCHANGED <<temp_files, rq_temp>>
          [] step = "render raises" ->
                /\ GoTo(q, "except")
                /\ UNCHANGED <<temp_files, rq_temp>>
          [] step = "written" ->
                /\ rq_temp' = [rq_temp EXCEPT ![q] = TempPath(rq_id[q], clock)]
                /\ temp_files' = [temp_files EXCEPT ![TempPath(rq_id[q], clock)] = HtmlOf(q)]
                /\ GoTo(q, "pdf")
    /\ UNCHANGED <<clock, pdf_files, rq_route, rq_id, rq_uploaded>>

\* pdfkit.from_file(temp_html_path, file_path): raises if the HTML file is not
\* there or wkhtmltopdf fails, else writes <contractId>.pdf from what the HTML
\* file holds
AcceptPdf(q) ==
    /\ rq_route[q] = "/isAccepted" /\ rq_pc[q] = "pdf"
    /\ \E converted \in BOOLEAN :
        IF converted /\ temp_files[rq_temp[q]] # NoContent
        THEN /\ pdf_files' = [pdf_files EXCEPT ![rq_id[q]] = PdfOf(temp_files[rq_temp[q]])]
             /\ GoTo(q, "remove")
        ELSE /\ GoTo(q, "except")
             /\ UNCHANGED pdf_files
    /\ UNCHANGED <<clock, temp_files, rq_route, rq_id, rq_temp, rq_uploaded>>

\* os.remove(temp_html_path) after the PDF: raises if the file is not there
AcceptRemove(q) ==
    /\ rq_route[q] = "/isAccepted" /\ rq_pc[q] = "remove"
    /\ IF temp_files[rq_temp[q]] # NoContent
       THEN /\ temp_files' = [temp_files EXCEPT ![rq_temp[q]] = NoContent]
            /\ GoTo(q, "upload")
       ELSE /\ GoTo(q, "except")
            /\ UNCHANGED temp_files
    /\ UNCHANGED <<clock, pdf_files, rq_route, rq_id, rq_temp, rq_uploaded>>

\* upload_to_github(file_path, file_name) of either handler: the content read
\* from <contractId>.pdf is sent; the URL comes back or Exception is raised
Upload(q) ==
    /\ rq_pc[q] = "upload"
    /\ rq_uploaded' = [rq_uploaded EXCEPT ![q] = pdf_files[rq_id[q]]]
    /\ \E accepted \in BOOLEAN :
        IF accepted THEN Respond(q, 200, "")
        ELSE IF rq_route[q] = "/isAccepted" THEN GoTo(q, "except")
        ELSE Respond(q, 500, "GitHub upload failed")
    /\ UNCHANGED <<clock, temp_files, pdf_files, rq_route, rq_id, rq_temp>>

\* the handler of accept_contract not removing the temporary file
Cleanup_Skipped(files, path) == files

\* `if 'temp_html_path' in locals() and os.path.exists(temp_html_path):
\*      os.remove(temp_html_path)`
Cleanup(files, path) ==
    IF path # NoTemp /\ files[path] # NoContent
    THEN [files EXCEPT ![path] = NoContent]
    ELSE files

\* the `except Exception` of accept_contract
AcceptExcept(q) ==
    /\ rq_route[q] = "/isAccepted" /\ rq_pc[q] = "except"
    /\ temp_files' = Cleanup(temp_files, rq_temp[q])
    /\ Respond(q, 500, IF rq_uploaded[q] # NoContent THEN "GitHub upload failed"
                       ELSE IF rq_temp[q] = NoTemp THEN "template error"
                       ELSE "wkhtmltopdf reported an error")
    /\ UNCHANGED <<clock, pdf_files, rq_route, rq_id, rq_temp, rq_uploaded>>

------------------------------------------------------------------------------
\* The specifications

all_vars == <<vars, repo_vars, run_vars, upload_vars, app_vars>>

\* every variable that is not of the dispute request
beside_dispute == <<repo_vars, run_vars, upload_vars, app_vars>>

Next ==
    \/ HandleDispute /\ UNCHANGED beside_dispute
    \/ ClassifyRole /\ UNCHANGED beside_dispute
    \/ GatherEvidence /\ UNCHANGED beside_dispute
    \/ JudgeProof /\ UNCHANGED beside_dispute

InitDispute == Init /\ RepoIdle /\ RunsIdle /\ UploadIdle /\ AppIdle

\* one request to /api/dispute/resolve
Spec == InitDispute /\ [][Next]_all_vars

NextRepoUrl == GetGithubRepoContents /\ UNCHANGED <<vars, run_vars, upload_vars, app_vars>>

InitRepoUrl == Init /\ RepoInit /\ RunsIdle /\ UploadIdle /\ AppIdle

\* one call of get_github_repo_contents, on any of the links of RepoUrls
SpecRepoUrl == InitRepoUrl /\ [][NextRepoUrl]_all_vars

beside_runs == <<vars, repo_vars, upload_vars, app_vars>>

NextRuns ==
    \/ \E r \in Runs : RunClassify(r) /\ UNCHANGED beside_runs
    \/ \E r \in Runs : RunGather(r) /\ UNCHANGED beside_runs
    \/ \E r \in Runs : RunJudge(r) /\ UNCHANGED beside_runs

InitRuns == Init /\ RepoIdle /\ RunsInit /\ UploadIdle /\ AppIdle

\* MaxRuns runs of get_ai_dispute_verdict, their steps interleaved in any order
SpecRuns == InitRuns /\ [][NextRuns]_all_vars

beside_uploads == <<vars, repo_vars, run_vars, app_vars>>

NextUploads ==
    \/ \E u \in Uploads : UploadGet(u) /\ UNCHANGED beside_uploads
    \/ \E u \in Uploads : UploadPut(u) /\ UNCHANGED beside_uploads

InitUploads == Init /\ RepoIdle /\ RunsIdle /\ UploadInit /\ AppIdle

\* MaxUploads calls of upload_to_github, their requests interleaved in any order
SpecUploads == InitUploads /\ [][NextUploads]_all_vars

beside_app == <<vars, repo_vars, run_vars, upload_vars>>

NextApp ==
    \/ Tick /\ UNCHANGED beside_app
    \/ \E q \in Requests : CreatePdf(q) /\ UNCHANGED beside_app
    \/ \E q \in Requests : AcceptRender(q) /\ UNCHANGED beside_app
    \/ \E q \in Requests : AcceptPdf(q) /\ UNCHANGED beside_app
    \/ \E q \in Requests : AcceptRemove(q) /\ UNCHANGED beside_app
    \/ \E q \in Requests : Upload(q) /\ UNCHANGED beside_app
    \/ \E q \in Requests : AcceptExcept(q) /\ UNCHANGED beside_app

InitApp == Init /\ RepoIdle /\ RunsIdle /\ UploadIdle /\ AppInit

\* MaxRequests requests to /create-contract and /isAccepted, their steps
\* interleaved in any order
SpecApp == InitApp /\ [][NextApp]_all_vars

------------------------------------------------------------------------------
\* What a run did, read off its record

Providers == {"get_github_repo_contents", "get_google_drive_folder_contents",
              "scrape_website_text"}

\* the positions in calls at which one of the functions of fns was invoked
CallsOf(fns) == {i \in DOMAIN calls : calls[i].fn \in fns}
Invoked(fn) == CallsOf({fn}) # {}

\* get_ai_dispute_verdict was called with a contract object, and is over
RunOver == pc = "responded" /\ calls # <<>> /\ contract_details.t = "dict"

\* the links list of the request, [] when the request has none
RequestLinks ==
    IF K("links") \in DOMAIN contract_details.v
    THEN contract_details.v[K("links")].v ELSE <<>>

\* the reply the inference service gave the classifier
ClassifierReply == calls[1].reply

------------------------------------------------------------------------------
\* C1 as stated: a run on a request whose links list is empty or missing returns
\* {status: "not accepted", reason: "No proof links were provided."}, whatever
\* the other fields and whatever the inference service answers.
C1_NoLinksAlways ==
    (RunOver /\ RequestLinks = <<>>)
        => ai_verdict = [status |-> "not accepted",
                         reason |-> PyStr(<<"No proof links were provided.">>)]

\* C1 as amended: a run on a request whose links list is empty or missing, in
\* which the classifier returned a role other than Unknown, returns
\* {status: "not accepted", reason: "No proof links were provided."}, whatever
\* the other fields and whatever that role is; no helper and no judge is invoked.
C1_NoLinksWhenRoleKnown ==
    (RunOver /\ RequestLinks = <<>> /\ freelancer_role # <<"Unknown">>)
        => /\ ai_verdict = [status |-> "not accepted",
                            reason |-> PyStr(<<"No proof links were provided.">>)]
           /\ raised = NoException
           /\ Len(calls) = 1

\* a request without a links field was answered "no proof links" although the
\* classifier returned text that is no label
C1_Witness ==
    /\ RunOver
    /\ K("links") \notin DOMAIN contract_details.v
    /\ freelancer_role = <<"The", " ", "role", " ", "is", " ", "unclear.">>
    /\ response.code = 200
    /\ response.reason = PyStr(<<"No proof links were provided.">>)

\* C2: when the classifier returns Unknown (the inference call raised, the prompt
\* could not be built, or the answer was the word Unknown), the outcome is
\* {status: "not accepted", reason: "Could not determine freelancer role from
\* contract."} and the classifier's is the only stage call of the run.
C2_UnknownRoleIsTerminal ==
    (calls # <<>> /\ freelancer_role = <<"Unknown">>)
        => /\ pc = "responded"
           /\ ai_verdict =
                [status |-> "not accepted",
                 reason |-> PyStr(<<"Could not determine freelancer role from contract.">>)]
           /\ raised = NoException
           /\ CallsOf(Providers \cup {"_verify_proof_with_role"}) = {}
           /\ Len(calls) = 1

\* the inference call of the classifier raised, on a request that has links
C2_Witness ==
    /\ RunOver
    /\ ~PromptRaises(contract_details)
    /\ ClassifierReply.raises
    /\ RequestLinks # <<>>
    /\ freelancer_role = <<"Unknown">>
    /\ response.status = "not accepted"

\* the helper the first link calls for, by the substrings it contains
C3_Expected(url) ==
    IF Contains(url, <<"github", ".", "com">>) THEN "get_github_repo_contents"
    ELSE IF Contains(url, <<"drive", ".", "google", ".", "com">>)
         THEN "get_google_drive_folder_contents"
    ELSE "scrape_website_text"

C3_Label(fn) ==
    CASE fn = "get_github_repo_contents" -> "List of Files from GitHub"
      [] fn = "get_google_drive_folder_contents" -> "List of Files from Google Drive"
      [] fn = "scrape_website_text" -> "Scraped Website Content"

\* C3: the helper invoked is decided by links[0] alone, "github.com" before
\* "drive.google.com" before the scrape; a run that went past the selection
\* invoked exactly one helper, on links[0]; and the evidence-kind label the
\* judge receives is the label of that helper.
C3_ProviderSelection ==
    /\ \A i \in CallsOf(Providers) :
          /\ calls[i].fn = C3_Expected(RequestLinks[1])
          /\ calls[i].args = <<RequestLinks[1]>>
    /\ Cardinality(CallsOf(Providers)) <= 1
    /\ (pc = "judge" \/ (pc = "responded" /\ proof_url # <<>>))
          => Cardinality(CallsOf(Providers)) = 1
    /\ \A j \in CallsOf({"_verify_proof_with_role"}) :
          \E i \in CallsOf(Providers) :
              i < j /\ calls[j].args[2] = C3_Label(calls[i].fn)

\* a link holding "drive.google.com" before "github.com" went to the repository
\* helper, and the judge was told "List of Files from GitHub"
C3_Witness ==
    /\ RunOver
    /\ Len(calls) = 3
    /\ RequestLinks[1] = UrlFolderThenRepo
    /\ calls[2].fn = "get_github_repo_contents"
    /\ calls[3].args[2] = "List of Files from GitHub"

\* what `Absent` covers: None, an empty list, an empty text
C4_Absent == {PyNone, PyList(<<>>), PyStr(<<>>)}

\* C4: when the selected helper returns no evidence, the outcome is
\* {status: "not accepted", reason: "Could not access or process the proof from
\* the provided link: <links[0]>"} and the judge is not invoked; the judge is
\* only ever invoked with evidence that is not absent.
C4_AbsentEvidence ==
    /\ (evidence \in C4_Absent)
          => /\ pc = "responded"
             /\ ai_verdict =
                  [status |-> "not accepted",
                   reason |-> PyStr(<<"Could not access or process the proof from the provided link: ">>
                                    \o RequestLinks[1])]
             /\ response.code = 200
             /\ ~Invoked("_verify_proof_with_role")
    /\ \A j \in CallsOf({"_verify_proof_with_role"}) :
          calls[j].args[1] \notin C4_Absent /\ calls[j].args[1] # Unset
    /\ pc = "judge" => (evidence \notin C4_Absent /\ evidence # Unset)

\* the repository API answered with an empty listing
C4_Witness ==
    /\ RunOver
    /\ Len(calls) = 2
    /\ calls[2].fn = "get_github_repo_contents"
    /\ ~calls[2].reply.fails
    /\ evidence = PyList(<<>>)
    /\ response.status = "not accepted"

\* the decision and the justification of a verdict that is an object
C5_Field(verdict, name) ==
    IF <<name>> \in DOMAIN verdict.v THEN verdict.v[<<name>>] ELSE PyNone

\* C5: in a run whose judge returned a verdict object, the status is "accepted"
\* when its decision is "approved" and "not accepted" for every other decision
\* (needs_review, error, anything else, none at all), and the reason is the
\* verdict's justification, the empty string included.
C5_DecisionDecides ==
    (Invoked("_verify_proof_with_role") /\ ai_detailed_verdict.t = "dict")
        => /\ pc = "responded"
           /\ raised = NoException
           /\ ai_verdict.status =
                (IF C5_Field(ai_detailed_verdict, "decision") = PyStr(<<"approved">>)
                 THEN "accepted" ELSE "not accepted")
           /\ ai_verdict.reason = C5_Field(ai_detailed_verdict, "justification")
           /\ response = [code |-> 200, ok |-> TRUE, status |-> ai_verdict.status,
                          reason |-> ai_verdict.reason, error |-> ""]

\* an approved verdict with an empty justification was accepted
C5_Witness ==
    /\ RunOver
    /\ Invoked("_verify_proof_with_role")
    /\ ai_detailed_verdict = PyDict(K("decision") :> PyStr(<<"approved">>)
                                    @@ K("justification") :> PyStr(<<>>))
    /\ response.status = "accepted"
    /\ response.reason = PyStr(<<>>)

\* the judge's reply decodes to the two-field object it was asked for
C6_Decodable(reply) ==
    /\ ~reply.raises
    /\ LET decoded == json_loads(Remove(Remove(Strip(reply.text), <<FENCE, "json">>),
                                        <<FENCE>>))
       IN /\ decoded.ok
          /\ decoded.val.t = "dict"
          /\ DOMAIN decoded.val.v = {<<"decision">>, <<"justification">>}
          /\ \A k \in DOMAIN decoded.val.v : decoded.val.v[k].t = "str"

\* C6 as stated: when the judge's inference call fails, or its text (code
\* fences stripped) does not decode to the two-field object, the verdict is
\* {decision: error, justification: <message>}, the run completes with a
\* DisputeOutcome, and the status is "not accepted".
C6_JudgmentFaultRecovered ==
    (pc = "responded" /\ Len(calls) = 3 /\ ~C6_Decodable(calls[3].reply))
        => /\ ai_detailed_verdict.t = "dict"
           /\ C5_Field(ai_detailed_verdict, "decision") = PyStr(<<"error">>)
           /\ raised = NoException
           /\ response.code = 200
           /\ response.status = "not accepted"

\* C7 as stated: whatever fails in an external call or in parsing its result,
\* get_ai_dispute_verdict returns a DisputeOutcome and raises nothing.
C7_NoExceptionCrossesAStage ==
    (pc = "responded" /\ calls # <<>>)
        => /\ raised = NoException
           /\ ai_verdict.status \in {"accepted", "not accepted"}

\* C8 as stated: what the classifier returns is one of the six role labels.
C8_RoleIsALabel ==
    calls # <<>>
        => freelancer_role \in
             {<<"UI/UX Designer">>, <<"Graphic Designer">>, <<"Web Developer">>,
              <<"Content Writer">>, <<"Social Media Manager">>, <<"Unknown">>}

\* C9: a run of the pipeline that completes is answered 200 with {ok: true,
\* status, reason}, the status and reason of its outcome, the status being
\* "accepted" or "not accepted", and only a body holding contractData gets there;
\* a body object without contractData is answered 400 with {ok: false, error:
\* "Missing 'contractData' in request body."} and no stage is invoked.
C9_EndpointContract ==
    /\ (pc = "responded" /\ ai_verdict # NoOutcome)
          => /\ body.t = "dict" /\ <<"contractData">> \in DOMAIN body.v
             /\ ai_verdict.status \in {"accepted", "not accepted"}
             /\ response = [code |-> 200, ok |-> TRUE, status |-> ai_verdict.status,
                            reason |-> ai_verdict.reason, error |-> ""]
    /\ response.code = 200 => (ai_verdict # NoOutcome /\ response.ok)
    /\ (pc = "responded" /\ body.t = "dict" /\ <<"contractData">> \notin DOMAIN body.v)
          => /\ response = [code |-> 400, ok |-> FALSE, status |-> "", reason |-> Unset,
                            error |-> "Missing 'contractData' in request body."]
             /\ calls = <<>>

\* a body object that has other fields but no contractData was answered 400
C9_Witness ==
    /\ pc = "responded"
    /\ body = PyDict(K("userEmail") :> PyStr(<<"a@b.c">>))
    /\ response.code = 400
    /\ ~response.ok
    /\ calls = <<>>

\* C10: an exception that reaches the except clause of handle_dispute is
\* answered 500 with {ok: false, error: "An internal server error occurred."},
\* the same answer whatever the exception and wherever it was raised; and
\* nothing else is answered 500.
C10_GenericInternalError ==
    /\ raised # NoException
          => /\ pc = "responded"
             /\ response = [code |-> 500, ok |-> FALSE, status |-> "", reason |-> Unset,
                            error |-> "An internal server error occurred."]
    /\ response.code = 500 => raised # NoException

\* the HTML extraction of the scrape helper raised, and the answer was the 500
C10_Witness ==
    /\ pc = "responded"
    /\ raised = Exception("scrape_website_text", "ParserRejectedMarkup")
    /\ response.code = 500
    /\ response.error = "An internal server error occurred."

\* the replies the stages of the run got, in order
Replies == [i \in DOMAIN calls |-> calls[i].reply]

\* the request with every link after the first dropped
C11_FirstLinkOnly(details) ==
    IF details.t = "dict" /\ <<"links">> \in DOMAIN details.v
       /\ details.v[<<"links">>].t = "list" /\ details.v[<<"links">>].v # <<>>
    THEN PyDict(DictPut(details.v, <<"links">>,
                        PyList(<<details.v[<<"links">>].v[1]>>)))
    ELSE details

\* C11: no evidence helper is invoked on a link other than links[0], and the
\* run ends as the run on the same request with links[1:] dropped ends, given
\* the same replies: the same outcome, or the same exception.  (Two requests
\* that differ only in links[1:] so end alike.)
C11_OnlyFirstLink ==
    /\ \A i \in CallsOf(Providers) : calls[i].args = <<RequestLinks[1]>>
    /\ RunOver
          => LET alone == get_ai_dispute_verdict(C11_FirstLinkOnly(contract_details),
                                                 Replies)
             IN /\ alone.exc = raised.exc
                /\ alone.exc = "" => alone.value = ai_verdict

\* a request with a web page first and a repository second was judged on the
\* scraped page
C11_Witness ==
    /\ RunOver
    /\ RequestLinks = <<UrlSite, UrlRepo>>
    /\ Len(calls) = 3
    /\ calls[2].fn = "scrape_website_text"
    /\ calls[2].args = <<UrlSite>>
    /\ ai_verdict.status = "accepted"

\* the pipeline was entered by the request that has been answered
C13_PipelineRan ==
    pc = "responded" /\ response.code # 400 /\ raised.stage # "handle_dispute"

\* C13: the stages run in order and none is repeated: the classifier is the
\* first call of every run and is called once; a helper is called at most once,
\* as the second call, and only when the role is not Unknown and the request has
\* links; the judge is called at most once, as the third call, and only on
\* evidence that is not absent; a call that failed is the last call of its run,
\* except the classifier's when it answered with text.
C13_StageOrder ==
    /\ Len(calls) <= 3
    /\ (pc \in {"evidence", "judge"} \/ C13_PipelineRan) => Len(calls) >= 1
    /\ \A i \in DOMAIN calls :
          /\ calls[i].fn = "_classify_freelancer_role" <=> i = 1
          /\ calls[i].fn \in Providers <=> i = 2
          /\ calls[i].fn = "_verify_proof_with_role" <=> i = 3
    /\ (pc = "evidence" \/ Len(calls) >= 2)
          => /\ freelancer_role # <<"Unknown">>
             /\ ~calls[1].reply.raises
             /\ RequestLinks # <<>>
    /\ (pc = "judge" \/ Len(calls) = 3)
          => /\ evidence \notin {Unset, PyNone, PyList(<<>>), PyStr(<<>>)}
             /\ calls[2].fn # "scrape_website_text" => ~calls[2].reply.fails
             /\ calls[2].fn = "scrape_website_text" => calls[2].reply.exc = ""
    /\ (Len(calls) = 3 /\ calls[3].reply.raises) => pc = "responded"

\* the repository API failed and the run ended there, after two calls
C13_Witness ==
    /\ C13_PipelineRan
    /\ Len(calls) = 2
    /\ calls[1].fn = "_classify_freelancer_role"
    /\ calls[2].fn = "get_github_repo_contents"
    /\ calls[2].reply.fails
    /\ response.status = "not accepted"

\* every gate was passed: a role, a link, evidence, a judge that said "approved"
C16_AllGates ==
    /\ Len(calls) = 3
    /\ freelancer_role # <<"Unknown">>
    /\ RequestLinks # <<>>
    /\ evidence \notin {Unset, PyNone, PyList(<<>>), PyStr(<<>>)}
    /\ calls[3].fn = "_verify_proof_with_role"
    /\ ai_detailed_verdict.t = "dict"
    /\ C5_Field(ai_detailed_verdict, "decision") = PyStr(<<"approved">>)

\* C16 as stated: a run returns status "accepted" when every gate was passed,
\* and every other run returns status "not accepted".
C16_AcceptedIffAllGates ==
    (C13_PipelineRan /\ calls # <<>>)
        => ai_verdict.status = (IF C16_AllGates THEN "accepted" ELSE "not accepted")

\* a path segment with one trailing ".git" taken off
C15_WithoutGit(segment) ==
    IF Len(segment) >= 2 /\ segment[Len(segment) - 1] = "." /\ segment[Len(segment)] = "git"
    THEN SubSeq(segment, 1, Len(segment) - 2)
    ELSE segment

\* C15: the repository helper queries the contents API for owner = the last but
\* one path segment of the link and repo = the last one less one trailing ".git",
\* whatever slashes end the link; https://github.com/acme/widgets.git,
\* https://github.com/acme/widgets and https://github.com/acme/widgets/ all query
\* acme/widgets, and a last segment that does not end in ".git" is queried as is.
C15_RepoUrlParsing ==
    (contents # Unset /\ Len(segments) >= 2)
        => LET owner == segments[Len(segments) - 1]
               last == segments[Len(segments)]
           IN /\ api_url = ApiUrl(owner, C15_WithoutGit(last))
              /\ repo_url \in
                    {<<"https:", "/", "/", "github", ".", "com", "/", "acme", "/", "widgets", ".", "git">>,
                     <<"https:", "/", "/", "github", ".", "com", "/", "acme", "/", "widgets">>,
                     <<"https:", "/", "/", "github", ".", "com", "/", "acme", "/", "widgets", "/">>}
                    => api_url = <<"https:", "/", "/", "api", ".", "github", ".", "com", "/",
                                   "repos", "/", "acme", "/", "widgets", "/", "contents", "/">>
              /\ last \in {<<"widgets">>, <<"git">>, <<"acme">>}
                    => api_url = ApiUrl(owner, last)
              /\ last = <<"widgets", ".", "git", ".", "git">>
                    => api_url = ApiUrl(owner, <<"widgets", ".", "git">>)

\* the helper was called on https://github.com/acme/widgets.git/ and listed the
\* contents of acme/widgets
C15_Witness ==
    /\ repo_url = <<"https:", "/", "/", "github", ".", "com", "/", "acme", "/",
                    "widgets", ".", "git", "/">>
    /\ api_url = <<"https:", "/", "/", "api", ".", "github", ".", "com", "/",
                   "repos", "/", "acme", "/", "widgets", "/", "contents", "/">>
    /\ contents = PyList(<<"index.html", "style.css">>)

\* the links of the request of run r
C12_Links(r) == run_details[r].v[<<"links">>].v

\* C12: however the steps of the runs interleave, every stage call of a run is
\* made on that run's own link, role and evidence, every finished run ends as
\* get_ai_dispute_verdict ends on its request alone with the replies the run
\* got, and the module-level names are never written.
C12_RunsIndependent ==
    /\ globals = ModuleGlobals
    /\ \A r \in Runs :
          /\ \A i \in DOMAIN run_calls[r] :
                /\ run_calls[r][i].fn \in Providers
                      => run_calls[r][i].args = <<C12_Links(r)[1]>>
                /\ run_calls[r][i].fn = "_verify_proof_with_role"
                      => /\ run_calls[r][i].args[1] =
                               InvokeProvider(run_calls[r][2].fn, C12_Links(r)[1],
                                              run_calls[r][2].reply).value
                         /\ run_calls[r][i].args[3] =
                               classify_freelancer_role(run_details[r], run_calls[r][1].reply)
          /\ run_pc[r] = "done"
                => run_result[r] =
                      get_ai_dispute_verdict(run_details[r],
                          [i \in DOMAIN run_calls[r] |-> run_calls[r][i].reply])

\* two runs on different links both went through the three stages, one to
\* "accepted" and the other to "not accepted"
C12_Witness ==
    /\ run_pc = [r \in Runs |-> "done"]
    /\ C12_Links(1) = <<UrlRepo>>
    /\ C12_Links(2) = <<UrlSite, UrlRepo>>
    /\ Len(run_calls[1]) = 3 /\ Len(run_calls[2]) = 3
    /\ run_calls[2][2].fn = "scrape_website_text"
    /\ run_result[1] = Returns(Outcome("accepted", PyStr(<<"Files match.">>)))
    /\ run_result[2] = Returns(Outcome("not accepted", PyStr(<<"Evidence is unrelated.">>)))

\* the GET and the PUT of upload u, once it has sent both
C14_Get(u) == up_log[u][1]
C14_Put(u) == up_log[u][2]

\* C14 as stated: every upload sends one GET and then one PUT; the PUT carries
\* a sha exactly when the GET answered 200 with a sha; and whenever the file
\* exists on the host when the PUT arrives, the sha sent is the file's current
\* sha, the PUT is accepted and the raw URL is returned, also when the requests
\* of two uploads of one file_name interleave.
C14_UploadAccepted ==
    \A u \in Uploads :
        /\ Len(up_log[u]) <= 2
        /\ up_pc[u] = "done" =>
              /\ <<C14_Get(u).method, C14_Put(u).method>> = <<"GET", "PUT">>
              /\ C14_Put(u).sent_sha # PyNone
                    <=> (C14_Get(u).status = 200 /\ C14_Get(u).sha # PyNone)
              /\ C14_Put(u).before # NoFile
                    => /\ C14_Put(u).sent_sha = PyStr(C14_Put(u).before)
                       /\ C14_Put(u).status \in {200, 201}
                       /\ up_result[u] = Returns(PyStr(RawUrl(up_file[u])))

\* C17: when /isAccepted has returned its response, the temporary HTML file the
\* request wrote is gone, on every path (the upload succeeded, the PDF could not
\* be made, the upload failed); and once every request has returned, the
\* directory holds no temporary HTML file at all.
C17_TempFileRemoved ==
    /\ \A q \in Requests :
          (rq_pc[q] = "responded" /\ rq_temp[q] # NoTemp)
              => temp_files[rq_temp[q]] # [html_of |-> q]
    /\ (\A q \in Requests : rq_pc[q] = "responded")
          => \A p \in TempPaths : temp_files[p] = [none |-> TRUE]

\* an /isAccepted request wrote its temporary file, made the PDF, failed to
\* upload it and answered 500
C17_Witness ==
    \E q \in Requests :
        /\ rq_route[q] = "/isAccepted"
        /\ rq_pc[q] = "responded"
        /\ rq_temp[q] # NoTemp
        /\ rq_uploaded[q] = [pdf_of |-> q]
        /\ rq_response[q] = [code |-> 500, ok |-> FALSE, error |-> "GitHub upload failed"]
        /\ temp_files[rq_temp[q]] = [none |-> TRUE]

\* C18 as stated: in every interleaving of requests to /create-contract and
\* /isAccepted, with the same contractId or not, the PDF a request uploads is
\* the one rendered from its own data, and the temporary HTML it converts (and
\* then removes) is the one it wrote.
C18_ArtifactIsolation ==
    \A q \in Requests :
        /\ rq_uploaded[q] # NoContent => rq_uploaded[q] = [pdf_of |-> q]
        /\ (rq_pc[q] \in {"pdf", "remove"})
              => temp_files[rq_temp[q]] = [html_of |-> q]

====
